---- MODULE Spec2Model ----
(***************************************************************************)
(* A model of rinterface (src/rinterface/rinterface.py): rinterface()      *)
(* writes an R script to .temp.R, runs Rscript on it, optionally decodes   *)
(* the side-channel file .grab_output.txt with parse_r_output(), and       *)
(* removes both files in its finally block.                                *)
(*                                                                         *)
(* Text is modelled as TLA+ strings, character by character (Len, SubSeq   *)
(* and \o on strings).  Numbers decoded by float() are kept in hundredths  *)
(* (3.14 is 314), numbers decoded by int() as integers.                    *)
(***************************************************************************)
EXTENDS Integers, Sequences, FiniteSets, TLC

\* --------------------------------------------------------------- bounds
\* Sequential calls of rinterface() per invocation slot.
MaxCalls == 2
\* Most elements of the arrays of the array round trip.
MaxCells == 6

\* ------------------------------------------------------- string helpers
Min(a, b) == IF a < b THEN a ELSE b

\* s[m-1:n] of Python, 1-based and inclusive: indices outside s are cut off.
Sub(s, m, n) ==
    LET lo == IF m < 1 THEN 1 ELSE m
        hi == IF n > Len(s) THEN Len(s) ELSE n
    IN  IF lo > hi THEN "" ELSE SubSeq(s, lo, hi)

\* The character at index i, "" outside s.
Ch(s, i) == Sub(s, i, i)

\* str.strip() removes these from both ends.
IsSpace(c) == c \in {" ", "\n", "\t", "\r"}

RECURSIVE IndexOf(_, _, _)
\* The first index >= from at which character c stands in s, 0 when none.
IndexOf(s, c, from) ==
    IF from > Len(s) THEN 0
    ELSE IF Ch(s, from) = c THEN from
    ELSE IndexOf(s, c, from + 1)

\* Python's `c in s` for a one-character c.
HasChar(s, c) == IndexOf(s, c, 1) # 0

StartsWith(s, pre) == Len(s) >= Len(pre) /\ Sub(s, 1, Len(pre)) = pre

RECURSIVE FindSub(_, _, _)
\* The first index >= from at which sub starts in s, 0 when none.
FindSub(s, sub, from) ==
    IF from + Len(sub) - 1 > Len(s) THEN 0
    ELSE IF Sub(s, from, from + Len(sub) - 1) = sub THEN from
    ELSE FindSub(s, sub, from + 1)

\* Python's `sub in s`.
Contains(s, sub) == FindSub(s, sub, 1) # 0

RECURSIVE LStrip(_)
LStrip(s) == IF Len(s) > 0 /\ IsSpace(Ch(s, 1)) THEN LStrip(Sub(s, 2, Len(s))) ELSE s

RECURSIVE RStrip(_)
RStrip(s) ==
    IF Len(s) > 0 /\ IsSpace(Ch(s, Len(s))) THEN RStrip(Sub(s, 1, Len(s) - 1)) ELSE s

\* str.strip()
Strip(s) == RStrip(LStrip(s))

\* s.split(c, 1) for a one-character c that occurs in s.
SplitFirst(s, c) ==
    LET i == IndexOf(s, c, 1)
    IN  <<Sub(s, 1, i - 1), Sub(s, i + 1, Len(s))>>

RECURSIVE SplitAll(_, _)
\* s.split(c): "a,,b" gives three parts and "" gives one empty part.
SplitAll(s, c) ==
    LET i == IndexOf(s, c, 1)
    IN  IF i = 0 THEN <<s>>
        ELSE <<Sub(s, 1, i - 1)>> \o SplitAll(Sub(s, i + 1, Len(s)), c)

RECURSIVE ReadLines(_)
\* file.readlines(): each line keeps its newline; a last line may lack one.
ReadLines(text) ==
    LET i == IndexOf(text, "\n", 1)
    IN  IF Len(text) = 0 THEN <<>>
        ELSE IF i = 0 THEN <<text>>
        ELSE <<Sub(text, 1, i)>> \o ReadLines(Sub(text, i + 1, Len(text)))

DigitVal(c) ==
    CASE c = "0" -> 0 [] c = "1" -> 1 [] c = "2" -> 2 [] c = "3" -> 3 [] c = "4" -> 4
      [] c = "5" -> 5 [] c = "6" -> 6 [] c = "7" -> 7 [] c = "8" -> 8 [] c = "9" -> 9
      [] OTHER -> -1

IsDigits(s) == Len(s) > 0 /\ \A i \in 1..Len(s) : DigitVal(Ch(s, i)) >= 0

RECURSIVE DigitsVal(_)
DigitsVal(s) ==
    IF Len(s) = 0 THEN 0
    ELSE 10 * DigitsVal(Sub(s, 1, Len(s) - 1)) + DigitVal(Ch(s, Len(s)))

\* The text without a leading sign, and the sign.
Unsigned(s) == IF Len(s) > 0 /\ Ch(s, 1) \in {"-", "+"} THEN Sub(s, 2, Len(s)) ELSE s
SignOf(s) == IF Len(s) > 0 /\ Ch(s, 1) = "-" THEN -1 ELSE 1

\* int(s): surrounding whitespace and one sign are accepted, then digits only.
IntOk(s) == IsDigits(Unsigned(Strip(s)))
IntVal(s) == SignOf(Strip(s)) * DigitsVal(Unsigned(Strip(s)))

\* float(s) for decimal literals with at most two decimals, in hundredths.
FloatOk(s) ==
    LET u == Unsigned(Strip(s))
        d == IndexOf(u, ".", 1)
    IN  IF d = 0 THEN IsDigits(u)
        ELSE /\ Len(u) - d \in 1..2
             /\ IsDigits(Sub(u, 1, d - 1))
             /\ IsDigits(Sub(u, d + 1, Len(u)))
FloatVal(s) ==
    LET u == Unsigned(Strip(s))
        d == IndexOf(u, ".", 1)
        frac == Sub(u, d + 1, Len(u))
    IN  SignOf(Strip(s)) *
        (IF d = 0 THEN 100 * DigitsVal(u)
         ELSE 100 * DigitsVal(Sub(u, 1, d - 1))
              + (IF Len(frac) = 1 THEN 10 * DigitsVal(frac) ELSE DigitsVal(frac)))

\* -------------------------------------------------------- Python values
\* Every Python value is a record of one shape: k names the type, and the
\* fields a type does not use keep these defaults.
PyNone == [k |-> "None", n |-> 0, s |-> "", ints |-> <<>>, strs |-> <<>>,
           shape |-> <<>>, elems |-> <<>>]
PyFloat(c) == [PyNone EXCEPT !.k = "float", !.n = c]
PyInt(i) == [PyNone EXCEPT !.k = "int", !.n = i]
PyStr(t) == [PyNone EXCEPT !.k = "str", !.s = t]
\* The empty list [] carries no element type.
PyEmptyList == [PyNone EXCEPT !.k = "list"]
PyListInt(l) == [PyNone EXCEPT !.k = "list[int]", !.ints = l]
PyListFloat(l) == [PyNone EXCEPT !.k = "list[float]", !.ints = l]
PyListStr(l) == [PyNone EXCEPT !.k = "list[str]", !.strs = l]
\* np.array(data).reshape(shape): data is the C-order (row-major) buffer.
PyArray(sh, data) == [PyNone EXCEPT !.k = "ndarray", !.shape = sh, !.ints = data]
\* A DataFrame is kept as the text of the table it was loaded from.
PyFrame(csv) == [PyNone EXCEPT !.k = "DataFrame", !.s = csv]
PyTuple(vs) == [PyNone EXCEPT !.k = "tuple", !.elems = vs]
\* subprocess.CompletedProcess with its captured streams.
PyCompleted(out, err) == [PyNone EXCEPT !.k = "CompletedProcess", !.strs = <<out, err>>]

\* Element (i, j), 1-based, of a rank-2 ndarray: C-order indexing.
ArrayElem(a, i, j) == a.ints[(i - 1) * a.shape[2] + j]

\* ------------------------------------------------------- parse_r_output
\* What one decoding gives: a value, or an exception; rm is the auxiliary
\* table file the decoding removed.
Parsed(v) == [ok |-> TRUE, val |-> v, exc |-> "", rm |-> {}]
Raised(e) == [ok |-> FALSE, val |-> PyNone, exc |-> e, rm |-> {}]

MapInt(items) == [i \in 1..Len(items) |-> IntVal(items[i])]
MapFloat(items) == [i \in 1..Len(items) |-> FloatVal(items[i])]
AllInt(items) == \A i \in 1..Len(items) : IntOk(items[i])
AllFloat(items) == \A i \in 1..Len(items) : FloatOk(items[i])

\* The list[...] branch.
ParseList(value_str, expected_type) ==
    LET subtype == Strip(Sub(expected_type, 6, Len(expected_type) - 1))
        items == SplitAll(value_str, ",")
    IN  IF value_str = "" THEN Parsed(PyEmptyList)
        ELSE IF subtype = "int" THEN
            (IF AllInt(items) THEN Parsed(PyListInt(MapInt(items))) ELSE Raised("ValueError"))
        ELSE IF subtype = "float" THEN
            (IF AllFloat(items) THEN Parsed(PyListFloat(MapFloat(items)))
             ELSE Raised("ValueError"))
        ELSE IF subtype = "str" THEN Parsed(PyListStr(items))
        ELSE Raised("ValueError")

\* The np.ndarray branch.
ParseArray(value_str) ==
    IF HasChar(value_str, ":") /\ HasChar(value_str, "x") THEN
        LET parts == SplitFirst(value_str, ":")
            rows_cols == SplitAll(parts[1], "x")
            array_part == parts[2]
            items == IF Strip(array_part) = "" THEN <<>> ELSE SplitAll(array_part, ",")
        IN  IF Len(rows_cols) # 2 THEN Raised("ValueError")
            ELSE IF ~(IntOk(rows_cols[1]) /\ IntOk(rows_cols[2])) THEN Raised("ValueError")
            ELSE IF ~AllFloat(items) THEN Raised("ValueError")
            ELSE IF Len(items) # IntVal(rows_cols[1]) * IntVal(rows_cols[2])
                 THEN Raised("ValueError")
            ELSE Parsed(PyArray(<<IntVal(rows_cols[1]), IntVal(rows_cols[2])>>,
                                MapFloat(items)))
    ELSE IF value_str = "" THEN Parsed(PyArray(<<0>>, <<>>))
    ELSE LET items == SplitAll(value_str, ",")
         IN  IF AllFloat(items) THEN Parsed(PyArray(<<Len(items)>>, MapFloat(items)))
             ELSE Raised("ValueError")

\* The pd.DataFrame branch; csvs maps the table files that exist to their text.
ParseFrame(value_str, csvs) ==
    IF ~StartsWith(value_str, "DATAFRAME:") THEN Raised("ValueError")
    ELSE LET csv_path == Strip(Sub(value_str, Len("DATAFRAME:") + 1, Len(value_str)))
         IN  IF csv_path \notin DOMAIN csvs THEN Raised("FileNotFoundError")
             ELSE [ok |-> TRUE, val |-> PyFrame(csvs[csv_path]), exc |-> "",
                   rm |-> {csv_path}]

\* parse_r_output(line, expected_type)
parse_r_output(line, expected_type, csvs) ==
    IF ~HasChar(line, "=") THEN Raised("ValueError")
    ELSE LET value_str == Strip(SplitFirst(line, "=")[2])
         IN  IF expected_type = "float" THEN
                 (IF FloatOk(value_str) THEN Parsed(PyFloat(FloatVal(value_str)))
                  ELSE Raised("ValueError"))
             ELSE IF expected_type = "int" THEN
                 (IF IntOk(value_str) THEN Parsed(PyInt(IntVal(value_str)))
                  ELSE Raised("ValueError"))
             ELSE IF expected_type = "str" THEN Parsed(PyStr(value_str))
             ELSE IF StartsWith(expected_type, "list[") THEN
                 ParseList(value_str, expected_type)
             ELSE IF expected_type = "np.ndarray" THEN ParseArray(value_str)
             ELSE IF expected_type = "pd.DataFrame" THEN ParseFrame(value_str, csvs)
             ELSE Raised("ValueError")

\* --------------------------------------------------- annotation scanner
RECURSIVE SkipSpace(_, _)
\* The index after the whitespace run that starts at i (regex \s*).
SkipSpace(code, i) ==
    IF i <= Len(code) /\ IsSpace(Ch(code, i)) THEN SkipSpace(code, i + 1) ELSE i

\* The end of the line that position i is on: the index before its newline.
LineEnd(code, i) ==
    LET n == IndexOf(code, "\n", i) IN IF n = 0 THEN Len(code) ELSE n - 1

\* A match of  #\s*@grab\{([^}]+)\}\n(.+)  that starts at i.
MatchAt(code, i) ==
    LET j == SkipSpace(code, i + 1)
        k == IndexOf(code, "}", j + 6)
        e == LineEnd(code, k + 2)
    IN  IF /\ Ch(code, i) = "#"
           /\ Sub(code, j, j + 5) = "@grab{"
           /\ k > j + 6
           /\ Ch(code, k + 1) = "\n"
           /\ e >= k + 2
        THEN [ok |-> TRUE, type |-> Sub(code, j + 6, k - 1),
              def |-> Sub(code, k + 2, e), end |-> e]
        ELSE [ok |-> FALSE, type |-> "", def |-> "", end |-> i]

RECURSIVE FindAll(_, _)
\* re.findall: the non-overlapping matches from position pos on, left to right.
FindAll(code, pos) ==
    IF pos > Len(code) THEN <<>>
    ELSE LET m == MatchAt(code, pos)
         IN  IF m.ok THEN <<<<m.type, m.def>>>> \o FindAll(code, m.end + 1)
             ELSE FindAll(code, pos + 1)

\* annotated_lines: the (var_type, var_def) pairs, empty unless grab.
Scan(code, grab) == IF grab THEN FindAll(code, 1) ELSE <<>>

\* ----------------------------------------------------- generated encoder
\* A temporary script name of the invocation's own.
TempFileUnique(p) == ".temp.R." \o ToString(p)

\* The names every invocation uses for its temporary script and its
\* side-channel file.
TempFile(p) == ".temp.R"
TempOutput(p) == ".grab_output.txt"

\* uuid.uuid4().hex: a token no other declaration of any call gets.
Uuid(p, call, k) == "u" \o ToString(p) \o "c" \o ToString(call) \o "d" \o ToString(k)

\* One snippet of the f-string: var_def is interpolated as an R expression
\* (expr) and inside double-quoted R string literals (the others).
Snippet(var_type, var_def, uuid, temp_output) ==
    [type |-> var_type,
     expr |-> var_def,
     nameLit |-> "\"" \o var_def \o "\"",
     frameLit |-> "\"" \o var_def \o "=DATAFRAME:\"",
     labelLit |-> "\"" \o var_def \o "=\"",
     uuidLit |-> "\"" \o uuid \o "\"",
     fileLit |-> "\"" \o temp_output \o "\""]

\* grab_snippet: one snippet per declaration, in order.
GrabSnippet(annotated_lines, p, call) ==
    [k \in 1..Len(annotated_lines) |->
        Snippet(annotated_lines[k][1], annotated_lines[k][2], Uuid(p, call, k),
                TempOutput(p))]

\* ------------------------------------------------------------- Rscript
\* R reads a string literal up to the first quote no backslash escapes.
RECURSIVE RLitEnd(_, _)
RLitEnd(lit, i) ==
    IF i > Len(lit) THEN 0
    ELSE IF Ch(lit, i) = "\\" THEN RLitEnd(lit, i + 2)
    ELSE IF Ch(lit, i) = "\"" THEN i
    ELSE RLitEnd(lit, i + 1)

\* The text is one string literal: its first closing quote ends it.
RLitOk(lit) == RLitEnd(lit, 2) = Len(lit)
RLitVal(lit) == Sub(lit, 2, Len(lit) - 1)

\* The snippet is syntactically valid R.
SnippetParses(sn) ==
    /\ RLitOk(sn.nameLit) /\ RLitOk(sn.frameLit) /\ RLitOk(sn.labelLit)
    /\ RLitOk(sn.uuidLit) /\ RLitOk(sn.fileLit)

\* R values: a data frame, a matrix (dim, elements in column-major storage
\* order), a vector or anything else; numbers in hundredths.
RVal(kind, dim, isnum, nums, strs) ==
    [kind |-> kind, dim |-> dim, isnum |-> isnum, nums |-> nums, strs |-> strs]
RNum(nums) == RVal("vector", <<Len(nums)>>, TRUE, nums, <<>>)
RChr(strs) == RVal("vector", <<Len(strs)>>, FALSE, <<>>, strs)
RMatrix(r, c, nums) == RVal("matrix", <<r, c>>, TRUE, nums, <<>>)
RFrame(csv) == RVal("df", <<>>, FALSE, <<>>, <<csv>>)
RUnknown == RVal("error", <<>>, FALSE, <<>>, <<>>)

\* Element (i, j), 1-based, of an R matrix: column-major storage.
RElem(m, i, j) == m.nums[(j - 1) * m.dim[1] + i]

\* What the defining lines of the bounded scripts evaluate to in R.
REval(expr) ==
    CASE expr = "x <- 3.14" -> RNum(<<314>>)
      [] expr = "x = 3" -> RNum(<<300>>)
      [] expr = "n <- 2" -> RNum(<<200>>)
      [] expr = "names <- c(\"a\",\"b\")" -> RChr(<<"a", "b">>)
      [] expr = "m <- matrix(1:6, nrow=2)" -> RMatrix(2, 3, <<100, 200, 300, 400, 500, 600>>)
      [] expr = "df <- cars" -> RFrame("speed,dist\n4,2\n")
      [] OTHER -> RUnknown

\* as.character() of a number: 314 is "3.14", 300 is "3", 250 is "2.5".
FmtNum(c) ==
    LET a == IF c < 0 THEN -c ELSE c
        frac == a % 100
    IN  (IF c < 0 THEN "-" ELSE "") \o ToString(a \div 100) \o
        (IF frac = 0 THEN ""
         ELSE IF frac % 10 = 0 THEN "." \o ToString(frac \div 10)
         ELSE IF frac < 10 THEN ".0" \o ToString(frac)
         ELSE "." \o ToString(frac))

RElems(v) ==
    IF v.isnum THEN [i \in 1..Len(v.nums) |-> FmtNum(v.nums[i])] ELSE v.strs

RECURSIVE Join(_, _)
\* paste(x, collapse = sep)
Join(items, sep) ==
    IF Len(items) = 0 THEN ""
    ELSE IF Len(items) = 1 THEN items[1]
    ELSE items[1] \o sep \o Join(Tail(items), sep)

IsNameChar(c) ==
    c \in {"a", "b", "c", "d", "e", "f", "g", "h", "i", "j", "k", "l", "m", "n", "o",
           "p", "q", "r", "s", "t", "u", "v", "w", "x", "y", "z", "A", "B", "C", "D",
           "E", "F", "G", "H", "I", "J", "K", "L", "M", "N", "O", "P", "Q", "R", "S",
           "T", "U", "V", "W", "X", "Y", "Z", "0", "1", "2", "3", "4", "5", "6", "7",
           "8", "9", ".", "_"}

RECURSIVE MakeNames(_)
\* make.names(): every character a name cannot hold becomes a dot.
MakeNames(s) ==
    IF Len(s) = 0 THEN ""
    ELSE (IF IsNameChar(Ch(s, 1)) THEN Ch(s, 1) ELSE ".") \o MakeNames(Sub(s, 2, Len(s)))

\* df_filename of one snippet.
FrameFile(sn) ==
    ".grab_df_" \o MakeNames(RLitVal(sn.nameLit)) \o "_" \o RLitVal(sn.uuidLit) \o ".csv"

\* The text one snippet appends to the side-channel file for value v: the
\* data frame, matrix, vector and fallback branches, tested in that order.
EncodeLine(sn, v) ==
    IF v.kind = "df" THEN
        RLitVal(sn.frameLit) \o " " \o FrameFile(sn) \o " " \o "\n"
    ELSE IF v.kind = "matrix" THEN
        RLitVal(sn.labelLit) \o FmtNum(100 * v.dim[1]) \o "x" \o FmtNum(100 * v.dim[2])
            \o ":" \o Join(RElems(v), ",") \o "\n"
    ELSE IF v.kind = "vector" THEN
        RLitVal(sn.labelLit) \o Join(RElems(v), ",") \o "\n"
    ELSE RLitVal(sn.labelLit) \o Join(RElems(v), " ") \o "\n"

\* ------------------------------------------------------------- state
VARIABLES
    pc,         \* where each invocation of rinterface() stands
    args,       \* its arguments: code, save, fname, capture, grab
    annotated,  \* its annotated_lines
    script,     \* its code after the grab snippets were appended
    results,    \* the streams subprocess.run handed back to it
    grabbed,    \* its grabbed_lines
    pending,    \* the return value or exception its finally block passes on
    calls,      \* how many calls each invocation slot has started
    fsScript,   \* the temporary script files that exist: name -> content
    saved,      \* the names of the copies written on save
    fsSide,     \* the side-channel files that exist: name -> text and writers
    fsCsv,      \* the auxiliary table files that exist: path -> text
    hist,       \* per call: what the child process did and what was read
    tempBy,     \* the call that last wrote a temporary script still in place
    pin,        \* input of the pure-function specifications
    pout        \* their output

vars == <<pc, args, annotated, script, results, grabbed, pending, calls,
          fsScript, saved, fsSide, fsCsv, hist, tempBy, pin, pout>>

\* The invocation slots: calls of one slot are sequential, calls of two
\* slots are concurrent.
Procs == {1, 2}
SeqProcs == {1}

NoFiles == [n \in {} |-> ""]
Without(f, names) == [n \in DOMAIN f \ names |-> f[n]]

\* A stream as Python sees it: None when it was not captured.
NoStream == [none |-> TRUE, s |-> ""]
Captured(text) == [none |-> FALSE, s |-> text]
\* An f-string's rendering of the stream.
Fmt(stream) == IF stream.none THEN "None" ELSE stream.s

NoOutcome == [kind |-> "none", exc |-> "", msg |-> "", val |-> PyNone]
Return(v) == [kind |-> "return", exc |-> "", msg |-> "", val |-> v]
Raise(e, m) == [kind |-> "raise", exc |-> e, msg |-> m, val |-> PyNone]

NoCall == <<0, 0>>
NoArgs == [code |-> "", save |-> FALSE, hasFname |-> FALSE, fname |-> "",
           capture |-> FALSE, grab |-> FALSE]
NoScript == [user |-> "", snips |-> <<>>, by |-> NoCall]
NoResults == [rc |-> 0, out |-> NoStream, err |-> NoStream]
NoHist == [spawned |-> 0, rc |-> 0, out |-> "", err |-> "", ranBy |-> NoCall,
           lastBy |-> NoCall, eff |-> "", appended |-> 0, sideBy |-> <<>>,
           sideSeen |-> "unread", written |-> {}, csvSeen |-> NoFiles]

\* ------------------------------------------------- the bounded inputs
CodePlain == "y <- 1"
CodeFloat == "# @grab{float}\nx <- 3.14"
CodeNames == "# @grab{list[str]}\nnames <- c(\"a\",\"b\")"
CodeEq == "# @grab{float}\nx = 3"
CodeMatrix == "# @grab{np.ndarray}\nm <- matrix(1:6, nrow=2)"
CodeFrameStr == "# @grab{str}\ndf <- cars"
CodeFrameInt == "# @grab{pd.DataFrame}\ndf <- cars\n# @grab{int}\nn <- 2"
CodeIntFrame == "# @grab{int}\nx <- 3.14\n# @grab{pd.DataFrame}\ndf <- cars"
Codes == {CodePlain, CodeFloat, CodeNames, CodeEq, CodeMatrix, CodeFrameStr,
          CodeFrameInt, CodeIntFrame}
ConcCodes == {CodeFloat, "# @grab{int}\nn <- 2"}

\* fname: not given (None), empty, or a path.
Fnames == {[has |-> FALSE, s |-> ""], [has |-> TRUE, s |-> ""],
           [has |-> TRUE, s |-> "out.R"]}

\* fname is read only when save is set, so it varies only then.
ArgSpace ==
    {[code |-> c, save |-> TRUE, hasFname |-> f.has, fname |-> f.s, capture |-> cp,
      grab |-> g] : c \in Codes, f \in Fnames, cp \in BOOLEAN, g \in BOOLEAN}
    \cup
    {[code |-> c, save |-> FALSE, hasFname |-> FALSE, fname |-> "", capture |-> cp,
      grab |-> g] : c \in Codes, cp \in BOOLEAN, g \in BOOLEAN}
ConcArgSpace ==
    {[code |-> c, save |-> FALSE, hasFname |-> FALSE, fname |-> "", capture |-> FALSE,
      grab |-> TRUE] : c \in ConcCodes}

\* What the user's own R code does when Rscript runs it: its exit status
\* and streams, the text it writes to .grab_output.txt itself, and whether
\* it ends the run before the appended snippets (an error, or quit()).
Effect(id, rc, out, err, side, quit) ==
    [id |-> id, rc |-> rc, out |-> out, err |-> err, side |-> side, quit |-> quit]
EffOk == Effect("ok", 0, "[1] 1\n", "", "", FALSE)
EffStop == Effect("stop", 1, "[1] 1\n", "Error: boom\n", "", TRUE)
EffQuit3 == Effect("quit3", 3, "", "bye\n", "", TRUE)
EffJunk == Effect("junk", 0, "", "", "junk=1\n", FALSE)
EffQuit == Effect("quit", 0, "", "", "", TRUE)
EffPart == Effect("part", 0, "", "", "n=2\n", TRUE)
Effects == {EffOk, EffStop, EffQuit3, EffJunk, EffQuit, EffPart}
ConcEffects == {EffOk}

\* ------------------------------------------------- Rscript on a script
\* cat(text, file = name, append = TRUE) by the run of call `me`.
AppendSide(side, name, text, me) ==
    IF text = "" THEN side
    ELSE LET old == IF name \in DOMAIN side THEN side[name] ELSE [text |-> "", by |-> <<>>]
         IN  (name :> [text |-> old.text \o text,
                       by |-> old.by \o [i \in 1..Len(ReadLines(text)) |-> me]]) @@ side

RECURSIVE RunSnips(_, _, _, _)
\* R evaluates the appended snippets in order from the k-th on and stops at
\* the first it cannot parse or evaluate, with exit status 1.
RunSnips(snips, k, me, st) ==
    IF k > Len(snips) THEN st
    ELSE LET sn == snips[k]
             v == REval(sn.expr)
         IN  IF ~SnippetParses(sn) THEN
                 [st EXCEPT !.rc = 1, !.err = @ \o "Error: unexpected symbol\n"]
             ELSE IF v.kind = "error" THEN
                 [st EXCEPT !.rc = 1, !.err = @ \o "Error: object not found\n"]
             ELSE RunSnips(snips, k + 1, me,
                    [st EXCEPT
                       !.side = AppendSide(@, RLitVal(sn.fileLit), EncodeLine(sn, v), me),
                       !.csv = IF v.kind = "df" THEN (FrameFile(sn) :> v.strs[1]) @@ @
                               ELSE @,
                       !.appended = @ + 1])

\* Rscript <file> by call `me` under effect eff of the user's code: the
\* exit status, the streams and the files after the run.
Rscript(file, eff, me, scripts, side, csv) ==
    IF file \notin DOMAIN scripts THEN
        [rc |-> 2, out |-> "", err |-> "Fatal error: cannot open file\n", side |-> side,
         csv |-> csv, appended |-> 0, ranBy |-> NoCall]
    ELSE LET st0 == [rc |-> eff.rc, out |-> eff.out, err |-> eff.err,
                     side |-> AppendSide(side, ".grab_output.txt", eff.side, me),
                     csv |-> csv, appended |-> Len(ReadLines(eff.side)),
                     ranBy |-> scripts[file].by]
         IN  IF eff.quit \/ eff.rc # 0 THEN st0
             ELSE RunSnips(scripts[file].snips, 1, me, st0)

\* ----------------------------------------------------------- rinterface
\* The message of the RuntimeError raised for a CalledProcessError.
ErrorMessage(returncode, stderr, stdout) ==
    "R script execution failed (exit code=" \o ToString(returncode) \o "):\n"
        \o "--- R stderr ---\n" \o Fmt(stderr) \o "\n"
        \o "--- R stdout ---\n" \o Fmt(stdout) \o "\n"

\* What subprocess.run hands to Python of a stream of the child.
Stream(capture, text) == IF capture THEN Captured(text) ELSE NoStream

\* The fname check left out.
SaveNeverFails(a) == FALSE

\* save is requested without a usable fname.
SaveFails(a) == a.save /\ (~a.hasFname \/ a.fname = "")

\* zip(annotated_lines, grabbed_lines) has this many pairs.
ZipLen(decls, lines) == Min(Len(decls), Len(lines))

\* A tuple whatever the number of items.
PackAlwaysTuple(parsed) == PyTuple(parsed)

\* The single item, or the tuple of what was parsed.
PackResult(parsed) == IF Len(parsed) = 1 THEN parsed[1] ELSE PyTuple(parsed)

RECURSIVE DecodeLoop(_, _, _, _, _)
\* The loop over the zipped pairs from the k-th on: it stops at the first
\* decoding that raises; csv is the table files left.
DecodeLoop(decls, lines, k, csv, acc) ==
    IF k > ZipLen(decls, lines) THEN [ok |-> TRUE, vals |-> acc, exc |-> "", csv |-> csv]
    ELSE LET r == parse_r_output(Strip(lines[k]), decls[k][1], csv)
         IN  IF r.ok THEN
                 DecodeLoop(decls, lines, k + 1, Without(csv, r.rm), Append(acc, r.val))
             ELSE [ok |-> FALSE, vals |-> acc, exc |-> r.exc, csv |-> csv]

\* A finally block that forgets the side-channel file.
CleanupScriptOnly(p) == {TempFile(p)}

\* The files the finally block removes when they exist.
CleanupNames(p) == {TempFile(p), TempOutput(p)}

\* rinterface(code, save, fname, capture, grab) is called: the scan and
\* the appended snippets.
Call(p, a) ==
    /\ pc[p] = "idle"
    /\ calls[p] < MaxCalls
    /\ LET call == calls[p] + 1
           lines == Scan(a.code, a.grab)
       IN  /\ calls' = [calls EXCEPT ![p] = call]
           /\ args' = [args EXCEPT ![p] = a]
           /\ annotated' = [annotated EXCEPT ![p] = lines]
           /\ script' = [script EXCEPT ![p] =
                            [user |-> a.code, snips |-> GrabSnippet(lines, p, call),
                             by |-> <<p, call>>]]
    /\ hist' = [hist EXCEPT ![p] = NoHist]
    /\ pc' = [pc EXCEPT ![p] = "write"]
    /\ UNCHANGED <<results, grabbed, pending, fsScript, saved, fsSide, fsCsv, tempBy, pin,
                   pout>>

\* The temporary script is written.
WriteTemp(p) ==
    /\ pc[p] = "write"
    /\ fsScript' = (TempFile(p) :> script[p]) @@ fsScript
    /\ tempBy' = script[p].by
    /\ pc' = [pc EXCEPT ![p] = "save"]
    /\ UNCHANGED <<args, annotated, script, results, grabbed, pending, calls, saved,
                   fsSide, fsCsv, hist, pin, pout>>

\* The optional copy to fname, or the ValueError.
Save(p) ==
    /\ pc[p] = "save"
    /\ IF SaveFails(args[p]) THEN
           /\ pending' = [pending EXCEPT ![p] =
                  Raise("ValueError", "If 'save' is True, 'fname' cannot be None.")]
           /\ pc' = [pc EXCEPT ![p] = "finally"]
           /\ UNCHANGED saved
       ELSE
           /\ saved' = IF args[p].save THEN saved \cup {args[p].fname} ELSE saved
           /\ pc' = [pc EXCEPT ![p] = "run"]
           /\ UNCHANGED pending
    /\ UNCHANGED <<args, annotated, script, results, grabbed, calls, fsScript, fsSide,
                   fsCsv, hist, tempBy, pin, pout>>

\* subprocess.run(["Rscript", temp_file], check=True) and the except clause.
Run(p, eff) ==
    /\ pc[p] = "run"
    /\ LET r == Rscript(TempFile(p), eff, <<p, calls[p]>>, fsScript, fsSide, fsCsv)
           out == Stream(args[p].capture, r.out)
           err == Stream(args[p].capture, r.err)
       IN  /\ fsSide' = r.side
           /\ fsCsv' = r.csv
           /\ hist' = [hist EXCEPT ![p] =
                  [@ EXCEPT !.spawned = @ + 1, !.rc = r.rc, !.out = r.out, !.err = r.err,
                            !.ranBy = r.ranBy, !.lastBy = tempBy, !.eff = eff.id,
                            !.appended = r.appended,
                            !.written = DOMAIN r.csv \ DOMAIN fsCsv]]
           /\ IF r.rc # 0 THEN
                  /\ pending' = [pending EXCEPT ![p] =
                         Raise("RuntimeError", ErrorMessage(r.rc, err, out))]
                  /\ pc' = [pc EXCEPT ![p] = "finally"]
                  /\ UNCHANGED results
              ELSE
                  /\ results' = [results EXCEPT ![p] = [rc |-> 0, out |-> out, err |-> err]]
                  /\ pc' = [pc EXCEPT ![p] = "decode"]
                  /\ UNCHANGED pending
    /\ UNCHANGED <<args, annotated, script, grabbed, calls, fsScript, saved, tempBy, pin,
                   pout>>

\* After a successful run: the return value, or the decoding of the
\* side-channel file.
Decode(p) ==
    /\ pc[p] = "decode"
    /\ LET a == args[p]
           name == TempOutput(p)
       IN  IF ~a.grab /\ a.capture THEN
               /\ pending' = [pending EXCEPT ![p] =
                      Return(PyCompleted(results[p].out.s, results[p].err.s))]
               /\ UNCHANGED <<grabbed, fsCsv, hist>>
           ELSE IF ~a.grab THEN
               /\ pending' = [pending EXCEPT ![p] = Return(PyNone)]
               /\ UNCHANGED <<grabbed, fsCsv, hist>>
           ELSE IF name \notin DOMAIN fsSide THEN
               /\ pending' = [pending EXCEPT ![p] = Return(PyNone)]
               /\ hist' = [hist EXCEPT ![p].sideSeen = "missing"]
               /\ UNCHANGED <<grabbed, fsCsv>>
           ELSE
               LET lines == ReadLines(fsSide[name].text)
                   loop == DecodeLoop(annotated[p], lines, 1, fsCsv, <<>>)
               IN  /\ grabbed' = [grabbed EXCEPT ![p] = lines]
                   /\ fsCsv' = loop.csv
                   /\ hist' = [hist EXCEPT ![p].sideSeen = "read",
                                           ![p].sideBy = fsSide[name].by,
                                           ![p].csvSeen = fsCsv]
                   /\ pending' = [pending EXCEPT ![p] =
                          IF loop.ok THEN Return(PackResult(loop.vals))
                          ELSE Raise(loop.exc, "")]
    /\ pc' = [pc EXCEPT ![p] = "finally"]
    /\ UNCHANGED <<args, annotated, script, results, calls, fsScript, saved, fsSide,
                   tempBy, pin, pout>>

\* The finally block; control then returns to the caller with pending.
Finally(p) ==
    /\ pc[p] = "finally"
    /\ fsScript' = Without(fsScript, CleanupNames(p) \cap {TempFile(p)})
    /\ fsSide' = Without(fsSide, CleanupNames(p) \cap {TempOutput(p)})
    /\ tempBy' = IF TempFile(p) \in DOMAIN fsScript /\ TempFile(p) \in CleanupNames(p)
                 THEN NoCall ELSE tempBy
    /\ pc' = [pc EXCEPT ![p] = "returned"]
    /\ UNCHANGED <<args, annotated, script, results, grabbed, pending, calls, saved,
                   fsCsv, hist, pin, pout>>

\* The caller has the outcome; the call's locals are gone.
Done(p) ==
    /\ pc[p] = "returned"
    /\ pc' = [pc EXCEPT ![p] = "idle"]
    /\ args' = [args EXCEPT ![p] = NoArgs]
    /\ annotated' = [annotated EXCEPT ![p] = <<>>]
    /\ script' = [script EXCEPT ![p] = NoScript]
    /\ results' = [results EXCEPT ![p] = NoResults]
    /\ grabbed' = [grabbed EXCEPT ![p] = <<>>]
    /\ pending' = [pending EXCEPT ![p] = NoOutcome]
    /\ hist' = [hist EXCEPT ![p] = NoHist]
    /\ UNCHANGED <<calls, fsScript, saved, fsSide, fsCsv, tempBy, pin, pout>>

NoInput == [kind |-> "none", m |-> RUnknown, n1 |-> "", n2 |-> "", e |-> "", t |-> ""]
NoOutput == [done |-> FALSE, r1 |-> Raised(""), r2 |-> Raised("")]

\* No call has been made and no file exists.
Fresh ==
    /\ args = [p \in Procs |-> NoArgs]
    /\ annotated = [p \in Procs |-> <<>>]
    /\ script = [p \in Procs |-> NoScript]
    /\ results = [p \in Procs |-> NoResults]
    /\ grabbed = [p \in Procs |-> <<>>]
    /\ pending = [p \in Procs |-> NoOutcome]
    /\ calls = [p \in Procs |-> 0]
    /\ fsScript = [n \in {} |-> NoScript]
    /\ saved = {}
    /\ fsSide = [n \in {} |-> [text |-> "", by |-> <<>>]]
    /\ fsCsv = NoFiles
    /\ hist = [p \in Procs |-> NoHist]
    /\ tempBy = NoCall

\* Before the first call.
Init ==
    /\ Fresh
    /\ pc = [p \in Procs |-> "idle"]
    /\ pin = NoInput
    /\ pout = NoOutput

\* Sequential calls of rinterface() by one caller.
Next ==
    \E p \in SeqProcs :
        \/ \E a \in ArgSpace : Call(p, a)
        \/ WriteTemp(p)
        \/ Save(p)
        \/ \E eff \in Effects : Run(p, eff)
        \/ Decode(p)
        \/ Finally(p)
        \/ Done(p)

Spec == Init /\ [][Next]_vars

\* Two callers in the same working directory, their steps interleaved.
NextConc ==
    \E p \in Procs :
        \/ \E a \in ConcArgSpace : Call(p, a)
        \/ WriteTemp(p)
        \/ Save(p)
        \/ \E eff \in ConcEffects : Run(p, eff)
        \/ Decode(p)
        \/ Finally(p)
        \/ Done(p)

SpecConc == Init /\ [][NextConc]_vars

\* ------------------------------------------ pure-function specifications
\* The generated encoder followed by the decoder (line.strip() included),
\* for a value v grabbed under the name `name` with declared type t.
EncodeDecode(name, t, v, csvs) ==
    parse_r_output(Strip(EncodeLine(Snippet(t, name, "u", TempOutput(1)), v)), t, csvs)

Cells == {0, 100}
Shapes == {sh \in (1..MaxCells) \X (1..MaxCells) : sh[1] * sh[2] <= MaxCells}
ArrayInputs ==
    {[NoInput EXCEPT !.kind = "array", !.m = RMatrix(r, c, nums)] :
        <<r, c, nums>> \in
            UNION {{<<r, c, f>> : f \in [1..(r * c) -> Cells]} :
                      <<r, c>> \in Shapes}}
    \cup
    {[NoInput EXCEPT !.kind = "array", !.m = RNum(nums)] :
        nums \in UNION {[1..n -> Cells] : n \in 0..MaxCells}}

InitArray ==
    /\ Fresh
    /\ pc = [p \in Procs |-> "pure"]
    /\ pin \in ArrayInputs
    /\ pout = NoOutput

\* An R array goes through the encoder and the decoder.
RoundTrip ==
    /\ pin.kind = "array"
    /\ ~pout.done
    /\ pout' = [done |-> TRUE,
                r1 |-> EncodeDecode("m", "np.ndarray", pin.m, NoFiles),
                r2 |-> Raised("")]
    /\ UNCHANGED <<pc, args, annotated, script, results, grabbed, pending, calls,
                   fsScript, saved, fsSide, fsCsv, hist, tempBy, pin>>

SpecArray == InitArray /\ [][RoundTrip]_vars

\* The names the encoder writes: the defining lines it can embed.
Names == {"x <- 3.14", "x = 3", "n <- 2", "m <- matrix(1:6, nrow=2)", "df <- cars"}
Encodings == {"3.14", "3", "", "1,2,3", "a,b", "2x3:1,2,3,4,5,6", "DATAFRAME: t.csv"}
Types == {"float", "int", "str", "list[int]", "list[float]", "list[str]", "np.ndarray",
          "pd.DataFrame", "bool"}
NameCsvs == [n \in {"t.csv"} |-> "a\n1\n"]
NameInputs ==
    {[NoInput EXCEPT !.kind = "name", !.n1 = a, !.n2 = b, !.e = e, !.t = t] :
        a \in Names, b \in Names, e \in Encodings, t \in Types}

InitName ==
    /\ Fresh
    /\ pc = [p \in Procs |-> "pure"]
    /\ pin \in NameInputs
    /\ pout = NoOutput

\* One encoding is decoded under two names.
ParseNames ==
    /\ pin.kind = "name"
    /\ ~pout.done
    /\ pout' = [done |-> TRUE,
                r1 |-> parse_r_output(pin.n1 \o "=" \o pin.e, pin.t, NameCsvs),
                r2 |-> parse_r_output(pin.n2 \o "=" \o pin.e, pin.t, NameCsvs)]
    /\ UNCHANGED <<pc, args, annotated, script, results, grabbed, pending, calls,
                   fsScript, saved, fsSide, fsCsv, hist, tempBy, pin>>

SpecName == InitName /\ [][ParseNames]_vars

\* ---------------------------------------------------------------- claims
Me(p) == <<p, calls[p]>>
Returned(p) == pc[p] = "returned"
\* The child process of the call exited with status 0.
RanOk(p) == hist[p].spawned > 0 /\ hist[p].rc = 0

\* C1: when control is back with the caller, and when the next call
\* starts, neither .temp.R nor .grab_output.txt exists, whichever way the
\* call ended.
C1_TempFilesRemoved ==
    \A p \in SeqProcs :
        pc[p] \in {"returned", "idle", "write"} =>
            /\ TempFile(p) \notin DOMAIN fsScript
            /\ TempOutput(p) \notin DOMAIN fsSide

\* A second call whose decoding of an existing side-channel file raised.
C1_Witness ==
    /\ Returned(1) /\ calls[1] = 2
    /\ hist[1].sideSeen = "read"
    /\ pending[1].kind = "raise" /\ pending[1].exc = "ValueError"

\* C2: a nonzero exit status raises a RuntimeError whose message holds the
\* exit code and the child's standard error and standard output, with and
\* without capture.
C2_ErrorCarriesStreams ==
    \A p \in SeqProcs :
        (Returned(p) /\ hist[p].spawned > 0 /\ hist[p].rc # 0) =>
            /\ pending[p].kind = "raise" /\ pending[p].exc = "RuntimeError"
            /\ Contains(pending[p].msg, "exit code=" \o ToString(hist[p].rc) \o ")")
            /\ Contains(pending[p].msg, hist[p].err)
            /\ Contains(pending[p].msg, hist[p].out)

\* C3: an R array of rank 1 or 2 that is encoded and decoded as np.ndarray
\* comes back with its shape and with element (i, j) where it was.
C3_ArrayRoundTrip ==
    (pout.done /\ pin.kind = "array") =>
        /\ pout.r1.ok
        /\ pout.r1.val.k = "ndarray"
        /\ pout.r1.val.shape = pin.m.dim
        /\ IF pin.m.kind = "matrix" THEN
               \A i \in 1..pin.m.dim[1], j \in 1..pin.m.dim[2] :
                   ArrayElem(pout.r1.val, i, j) = RElem(pin.m, i, j)
           ELSE pout.r1.val.ints = pin.m.nums

\* C4: with grab set and no declaration found, a successful run returns
\* None, whatever the side-channel file holds.
C4_NoDeclarationsNone ==
    \A p \in SeqProcs :
        (Returned(p) /\ args[p].grab /\ Len(annotated[p]) = 0 /\ RanOk(p)) =>
            pending[p] = Return(PyNone)

\* C5: no auxiliary table file written during the run of a call exists
\* when the call returns or raises.
C5_TablesRemoved ==
    \A p \in SeqProcs : Returned(p) => hist[p].written \cap DOMAIN fsCsv = {}

\* C6: the name before the first '=' of a side-channel line does not
\* matter: two names the encoder can write give the same outcome for the
\* same encoding and declared type, the decoding of the encoding.
C6_NameIgnored ==
    (pout.done /\ pin.kind = "name") =>
        /\ pout.r1 = pout.r2
        /\ pout.r1 = parse_r_output("v=" \o pin.e, pin.t, NameCsvs)

\* The k-th declaration decoded against the k-th line read.
PairDecoded(p, k) ==
    parse_r_output(Strip(grabbed[p][k]), annotated[p][k][1], hist[p].csvSeen)

\* C7: with D declarations and L lines read, exactly the pairs
\* (declaration k, line k), k = 1..min(D, L), are decoded, each under its
\* declaration's type; the result is the bare value for one pair and the
\* tuple of the values in order otherwise; the call raises only when one of
\* these pairs does, never for a declaration beyond L.
C7_PositionalPairing ==
    \A p \in SeqProcs :
        (Returned(p) /\ hist[p].sideSeen = "read") =>
            LET n == Min(Len(annotated[p]), Len(grabbed[p]))
                bad == {k \in 1..n : ~PairDecoded(p, k).ok}
            IN  /\ pending[p].kind = "return" <=> bad = {}
                /\ pending[p].kind = "raise" =>
                       \E k \in bad : /\ \A j \in bad : k <= j
                                      /\ pending[p].exc = PairDecoded(p, k).exc
                /\ (pending[p].kind = "return" /\ n = 1) =>
                       pending[p].val = PairDecoded(p, 1).val
                /\ (pending[p].kind = "return" /\ n # 1) =>
                       /\ pending[p].val.k = "tuple"
                       /\ Len(pending[p].val.elems) = n
                       /\ \A k \in 1..n : pending[p].val.elems[k] = PairDecoded(p, k).val

\* Two declarations, one line: the first pair is returned bare.
C7_Witness ==
    /\ Returned(1) /\ hist[1].sideSeen = "read"
    /\ Len(annotated[1]) = 2 /\ Len(grabbed[1]) = 1
    /\ pending[1] = Return(PyInt(2))

\* C8: a call with save set and no fname spawns no subprocess and ends in
\* the ValueError, whatever capture and grab are.
C8_NoSpawnWithoutFname ==
    \A p \in SeqProcs :
        (pc[p] # "idle" /\ args[p].save /\ (~args[p].hasFname \/ args[p].fname = "")) =>
            /\ hist[p].spawned = 0
            /\ pc[p] \notin {"run", "decode"}
            /\ Returned(p) => (pending[p].kind = "raise" /\ pending[p].exc = "ValueError")

\* The configuration error is with the caller, capture and grab both set.
C8_Witness ==
    /\ Returned(1) /\ args[1].save /\ ~args[1].hasFname
    /\ args[1].capture /\ args[1].grab
    /\ pending[1].kind = "raise" /\ pending[1].exc = "ValueError"
    /\ hist[1].spawned = 0

\* C9: with grab set and user code that does nothing else, the float
\* scenario returns 3.14 and the list[str] scenario returns ['a', 'b'].
C9_GrabScenarios ==
    \A p \in SeqProcs :
        (Returned(p) /\ args[p].grab /\ ~SaveFails(args[p]) /\ hist[p].eff = "ok") =>
            /\ args[p].code = CodeFloat => pending[p] = Return(PyFloat(314))
            /\ args[p].code = CodeNames => pending[p] = Return(PyListStr(<<"a", "b">>))

\* C10: concurrent invocations share the temporary script: what an
\* invocation executes is what the last writer of any invocation left, or
\* nothing when a finally block removed it since (last writer wins).
C10_LastWriterWins ==
    \A p \in Procs : hist[p].spawned > 0 => hist[p].ranBy = hist[p].lastBy

\* Invocation 1 ran the script of invocation 2 and decoded a line the run
\* of invocation 2 wrote; invocation 2 found its side-channel file gone.
C10_Witness ==
    /\ hist[1].spawned > 0 /\ hist[1].ranBy = Me(2)
    /\ hist[1].sideSeen = "read" /\ hist[1].sideBy[1] = Me(2)
    /\ hist[2].sideSeen = "missing" /\ hist[2].appended > 0
====
